---------------------------- MODULE Spec2Model ----------------------------
(***************************************************************************)
(* A model of importgraph.py: the import resolver (ImportAction), the      *)
(* graph accumulator (AbstractImportGraph / DotImportGraph) and the load   *)
(* driver (ImportGraphCommand).                                            *)
(* The driver is modelled with literal module names (-d/--directory off).  *)
(*                                                                         *)
(* Python values are represented as follows.                               *)
(*   str            a sequence of one-character strings; "." is the dot    *)
(*   None / value   the empty tuple <<>> / the one-tuple <<value>>         *)
(*   dict           a function whose DOMAIN is the set of keys             *)
(*   tuple, list    a sequence                                             *)
(*   module object  [kind, file]: kind "file" has __file__ = file, kind    *)
(*                  "nofile" has no __file__ attribute (built-in), kind    *)
(*                  "nonefile" has __file__ = None (namespace package)     *)
(*   file path      a TLA+ string; a compiled regex is the set of file     *)
(*                  paths its language contains                            *)
(***************************************************************************)
EXTENDS Naturals, Integers, Sequences, FiniteSets, TLC

VARIABLES
    sys_modules,     \* sys.modules: module name -> module object
    import_action,   \* the ImportAction constructed last (its four fields)
    ret,             \* results of the resolver methods called on import_action
    filename_regex,  \* AbstractImportGraph._filename_regex
    nodes,           \* AbstractImportGraph._nodes
    edges,           \* AbstractImportGraph._edges
    last_call,       \* the graph / hook call performed last and how it ended
    requested,       \* history: the edges handed to _add_edge so far
    ncalls,          \* history: number of graph calls made so far
    options,         \* ImportGraphCommand._options
    pc,              \* position of the driver
    pending,         \* top-level module names still to be loaded by run()
    stack,           \* module bodies being executed, innermost last
    out_file,        \* state of the file named by -o/--output
    rendered         \* what was handed to the renderer (Option)

vars == <<sys_modules, import_action, ret, filename_regex, nodes, edges,
          last_call, requested, ncalls, options, pc, pending, stack, out_file,
          rendered>>

resolverVars == <<sys_modules, import_action, ret>>
graphVars == <<filename_regex, nodes, edges, last_call, requested, ncalls>>
runVars == <<options, pc, pending, stack, out_file, rendered>>

----------------------------------------------------------------------------
(* Bounds of the model *)

\* largest relative-import level drawn for an ImportAction
MaxLevel == 2
\* depth at which the interpreter raises RecursionError
RecursionLimit == 3
\* number of graph calls explored in one behaviour of Spec
MaxCalls == 2
\* number of top-level modules given on the command line of a run
MaxModules == 2

----------------------------------------------------------------------------
(* Python values *)

None == <<>>
Some(x) == <<x>>
IsNone(o) == o = <<>>
Value(o) == o[1]

Dot == "."
EmptyStr == <<>>

\* module names used by the inputs
PKG == <<"p", "k", "g">>
PKG_A == <<"p", "k", "g", ".", "a">>
PKG_B == <<"p", "k", "g", ".", "b">>
PKG_SUB == <<"p", "k", "g", ".", "s", "u", "b">>
CALLER == <<"c", "a", "l", "l", "e", "r">>
MOD_A == <<"a">>
MOD_B == <<"b">>
MOD_C == <<"c">>
MOD_U == <<"u">>
MOD_N == <<"n">>
MOD_M == <<"m">>
MOD_X == <<"x">>
MOD_SUB == <<"s", "u", "b">>
MOD_SYS == <<"s", "y", "s">>
MOD_NS == <<"n", "s">>
MOD_IO == <<"_", "i", "o">>
FROZEN_EXTERNAL == <<"_", "f", "r", "o", "z", "e", "n", "_", "i", "m", "p",
                     "o", "r", "t", "l", "i", "b", "_", "e", "x", "t", "e",
                     "r", "n", "a", "l">>
BOOTSTRAP_EXTERNAL == <<"i", "m", "p", "o", "r", "t", "l", "i", "b", ".", "_",
                        "b", "o", "o", "t", "s", "t", "r", "a", "p", "_", "e",
                        "x", "t", "e", "r", "n", "a", "l">>
IMPORTLIB == <<"i", "m", "p", "o", "r", "t", "l", "i", "b">>
MOD_IO_PY == <<"i", "o">>
MOD_MISSING == <<"m", "i", "s", "s", "i", "n", "g">>

UNKNOWN_MODULE_NAME == <<"<", "u", "n", "k", "n", "o", "w", "n", ">">>

\* str.split('.'): the maximal dot-free pieces; ''.split('.') is ['']
RECURSIVE SplitFrom(_, _, _)
SplitFrom(s, i, cur) ==
    IF i > Len(s) THEN <<cur>>
    ELSE IF s[i] = Dot THEN <<cur>> \o SplitFrom(s, i + 1, <<>>)
    ELSE SplitFrom(s, i + 1, Append(cur, s[i]))

Split(s) == SplitFrom(s, 1, <<>>)

\* '.'.join(path)
RECURSIVE Join(_)
Join(path) ==
    IF Len(path) = 0 THEN EmptyStr
    ELSE IF Len(path) = 1 THEN path[1]
    ELSE path[1] \o <<Dot>> \o Join(Tail(path))

\* seq[:stop] with Python's treatment of a negative stop
SliceTo(seq, stop) ==
    LET n == Len(seq)
        k == IF stop < 0 THEN (IF n + stop < 0 THEN 0 ELSE n + stop)
             ELSE (IF stop > n THEN n ELSE stop)
    IN  SubSeq(seq, 1, k)

\* the orders in which a set can be iterated
RECURSIVE Orderings(_)
Orderings(S) ==
    IF S = {} THEN {<<>>}
    ELSE UNION {{<<x>> \o rest : rest \in Orderings(S \ {x})} : x \in S}

Range(seq) == {seq[i] : i \in 1..Len(seq)}

----------------------------------------------------------------------------
(* ImportAction *)

\* ImportAction.__init__
ImportAction(name, the_globals, fromlist, level) ==
    [name |-> name, the_globals |-> the_globals, fromlist |-> fromlist,
     level |-> level]

\* ImportAction.from_name
from_name(self) ==
    IF IsNone(self.the_globals) THEN UNKNOWN_MODULE_NAME
    ELSE IF "__name__" \in DOMAIN Value(self.the_globals)
         THEN Value(self.the_globals)["__name__"]
         ELSE UNKNOWN_MODULE_NAME

\* variant of _build_imported_paths that strips `level` segments by
\* counting from the front, so that level 0 keeps the whole requester path
_build_imported_paths_keep_root(self) ==
    LET from_module_path == Split(from_name(self))
        root_module == SubSeq(from_module_path, 1,
                              Len(from_module_path) - self.level)
        root == IF self.name # EmptyStr THEN root_module \o Split(self.name)
                ELSE root_module
        fl == Value(self.fromlist)
    IN  [i \in 1..Len(fl) |-> Append(root, fl[i])]

\* ImportAction._build_imported_paths (fromlist is a list here)
_build_imported_paths(self) ==
    LET from_module_path == Split(from_name(self))
        root_module == SliceTo(from_module_path, 0 - self.level)
        root == IF self.name # EmptyStr THEN root_module \o Split(self.name)
                ELSE root_module
        fl == Value(self.fromlist)
    IN  [i \in 1..Len(fl) |-> Append(root, fl[i])]

\* ImportAction._get_module: Some(module) or None
_get_module(mods, name) ==
    IF name \in DOMAIN mods THEN Some(mods[name]) ELSE None

\* ImportAction.module_file_path: Some(path), or None for __file__ = None
module_file_path(mods, name) ==
    LET module == _get_module(mods, name) IN
    IF IsNone(module) THEN Some("")
    ELSE IF Value(module).kind = "nofile" THEN Some("")
    ELSE IF Value(module).kind = "nonefile" THEN None
    ELSE Some(Value(module).file)

\* the loop of _last_module_in_path from index i on
RECURSIVE LastModuleFrom(_, _, _)
LastModuleFrom(mods, path, i) ==
    IF i >= Len(path) THEN <<>>
    ELSE LET sub_path == SliceTo(path, 0 - i) IN
         IF ~IsNone(_get_module(mods, Join(sub_path))) THEN sub_path
         ELSE LastModuleFrom(mods, path, i + 1)

\* ImportAction._last_module_in_path
_last_module_in_path(mods, path) == LastModuleFrom(mods, path, 0)

\* the set built on line 79 of imported_names
imported_module_paths(self, mods) ==
    {_last_module_in_path(mods, p) : p \in Range(_build_imported_paths(self))}

\* variant of imported_names that resolves a plain import relative to the
\* requester, as it does for a from-import
imported_names_relative(self, mods) ==
    IF IsNone(self.fromlist)
    THEN {<<Join(SliceTo(Split(from_name(self)), 0 - self.level)
                 \o Split(self.name))>>}
    ELSE {[i \in 1..Len(o) |-> Join(o[i])] :
             o \in Orderings(imported_module_paths(self, mods))}

\* variant of imported_names that maps the paths with a list comprehension
\* instead of collecting them in a set first
imported_names_list(self, mods) ==
    IF IsNone(self.fromlist) THEN {<<self.name>>}
    ELSE LET paths == _build_imported_paths(self) IN
         {[i \in 1..Len(paths) |-> Join(_last_module_in_path(mods, paths[i]))]}

\* ImportAction.imported_names: the lists it can return (a set is iterated
\* in an order the interpreter chooses)
imported_names(self, mods) ==
    IF IsNone(self.fromlist) THEN {<<self.name>>}
    ELSE {[i \in 1..Len(o) |-> Join(o[i])] :
             o \in Orderings(imported_module_paths(self, mods))}

----------------------------------------------------------------------------
(* Inputs of the resolver specification *)

Names == {EmptyStr, PKG, PKG_A}
Contexts == {None, Some(<<>>)} \cup
            {Some([k \in {"__name__"} |-> n]) : n \in {PKG, PKG_SUB, CALLER}}
FromLists == {None, Some(<<>>), Some(<<MOD_A>>), Some(<<MOD_A, MOD_B>>),
              Some(<<MOD_SUB, MOD_A>>)}
Levels == 0..MaxLevel

\* the module object the runtime holds for each module name of the inputs
ModuleObject(n) ==
    CASE n = PKG -> [kind |-> "file", file |-> "/project/pkg/__init__.py"]
      [] n = PKG_A -> [kind |-> "file", file |-> "/project/pkg/a.py"]
      [] n = PKG_B -> [kind |-> "file", file |-> "/project/pkg/b.py"]
      [] n = PKG_SUB -> [kind |-> "file", file |-> "/project/pkg/sub.py"]
      [] n = MOD_A -> [kind |-> "file", file |-> "/project/a.py"]
      [] n = MOD_B -> [kind |-> "file", file |-> "/project/b.py"]
      [] n = MOD_C -> [kind |-> "file", file |-> "/lib/c.py"]
      [] n = MOD_U -> [kind |-> "file", file |-> "/project/u.py"]
      [] n = MOD_N -> [kind |-> "file", file |-> "/project/n.py"]
      [] n = MOD_M -> [kind |-> "file", file |-> "/project/m.py"]
      [] n = CALLER -> [kind |-> "file", file |-> "/lib/caller.py"]
      [] n = MOD_SYS -> [kind |-> "nofile", file |-> ""]
      [] n = MOD_IO -> [kind |-> "nofile", file |-> ""]
      [] n \in {FROZEN_EXTERNAL, BOOTSTRAP_EXTERNAL} ->
            [kind |-> "file", file |-> "/lib/importlib/_bootstrap_external.py"]
      [] n = IMPORTLIB ->
            [kind |-> "file", file |-> "/lib/importlib/__init__.py"]
      [] n = MOD_IO_PY -> [kind |-> "file", file |-> "/lib/io.py"]
      [] n = MOD_NS -> [kind |-> "nonefile", file |-> ""]

Loadable == {PKG, PKG_A, PKG_B, PKG_SUB, CALLER}
ModuleTables == {[n \in D |-> ModuleObject(n)] : D \in SUBSET Loadable}

NoCall == [op |-> "none", edge |-> None, names |-> None, outcome |-> "none"]
NoOptions == [module |-> <<>>, output |-> None, regex |-> None]

GraphIdle ==
    /\ filename_regex = None
    /\ nodes = {}
    /\ edges = {}
    /\ last_call = NoCall
    /\ requested = {}
    /\ ncalls = 0

RunIdle ==
    /\ options = NoOptions
    /\ pc = "idle"
    /\ pending = <<>>
    /\ stack = <<>>
    /\ out_file = "absent"
    /\ rendered = None

Called(m) == m \in DOMAIN ret
Record(m, v) == [k \in DOMAIN ret \cup {m} |-> IF k = m THEN v ELSE ret[k]]

InitResolver ==
    /\ sys_modules \in ModuleTables
    /\ import_action \in {ImportAction(n, g, f, l) :
                             n \in Names, g \in Contexts, f \in FromLists,
                             l \in Levels}
    /\ ret = <<>>
    /\ GraphIdle
    /\ RunIdle

CallFromName ==
    /\ ~Called("from_name")
    /\ ret' = Record("from_name", from_name(import_action))
    /\ UNCHANGED <<sys_modules, import_action, graphVars, runVars>>

CallBuildImportedPaths ==
    /\ ~Called("_build_imported_paths")
    /\ ~IsNone(import_action.fromlist)
    /\ ret' = Record("_build_imported_paths", _build_imported_paths(import_action))
    /\ UNCHANGED <<sys_modules, import_action, graphVars, runVars>>

CallImportedNames ==
    /\ ~Called("imported_names")
    /\ \E lst \in imported_names(import_action, sys_modules) :
          ret' = Record("imported_names", lst)
    /\ UNCHANGED <<sys_modules, import_action, graphVars, runVars>>

NextResolver == CallFromName \/ CallBuildImportedPaths \/ CallImportedNames

SpecResolver == InitResolver /\ [][NextResolver]_vars

----------------------------------------------------------------------------
(* AbstractImportGraph *)

ProjectFiles == {"/project/pkg/__init__.py", "/project/pkg/a.py",
                 "/project/pkg/b.py", "/project/pkg/sub.py", "/project/a.py",
                 "/project/b.py", "/project/u.py", "/project/n.py",
                 "/project/m.py"}
AllFiles == {"", "/lib/caller.py", "/lib/c.py",
             "/lib/importlib/_bootstrap_external.py",
             "/lib/importlib/__init__.py", "/lib/io.py"} \cup ProjectFiles

\* re.compile(pattern): the file paths the pattern matches in full
ReCompile(pattern) ==
    CASE pattern = ".*" -> AllFiles
      [] pattern = "/project/.*" -> ProjectFiles
      [] pattern = "" -> {""}

\* AbstractImportGraph.__init__: the compiled regex, or None
CompileOption(regex) ==
    IF IsNone(regex) THEN None ELSE Some(ReCompile(Value(regex)))

\* Pattern.fullmatch(string): "match", "None", or "TypeError" when the
\* argument is None
fullmatch(regex, file) ==
    IF IsNone(file) THEN "TypeError"
    ELSE IF Value(file) \in regex THEN "match" ELSE "None"

\* AbstractImportGraph._should_keep_edge: "True", "False" or "TypeError"
_should_keep_edge(regex, mods, from, to) ==
    IF IsNone(regex) THEN "True"
    ELSE LET from_match == fullmatch(Value(regex), module_file_path(mods, from))
             to_match == fullmatch(Value(regex), module_file_path(mods, to))
         IN  IF from_match = "TypeError" \/ to_match = "TypeError"
             THEN "TypeError"
             ELSE IF from_match = "match" /\ to_match = "match"
                  THEN "True" ELSE "False"

\* AbstractImportGraph._add_node
_add_node(ns, node) == IF node \notin ns THEN ns \cup {node} ELSE ns

\* AbstractImportGraph._add_edge, entered at call depth `depth`: the graph
\* it leaves and how the call ends
RECURSIVE _add_edge(_, _, _, _, _, _)
_add_edge(ns, es, regex, mods, edge, depth) ==
    IF depth > RecursionLimit
    THEN [nodes |-> ns, edges |-> es, outcome |-> "RecursionError"]
    ELSE LET keep == _should_keep_edge(regex, mods, edge[1], edge[2]) IN
         IF keep = "TypeError"
         THEN [nodes |-> ns, edges |-> es, outcome |-> "TypeError"]
         ELSE IF keep = "False"
         THEN [nodes |-> ns, edges |-> es, outcome |-> "returned"]
         ELSE LET ns2 == _add_node(_add_node(ns, edge[1]), edge[2]) IN
              IF edge \notin es
              THEN _add_edge(ns2, es, regex, mods, edge, depth + 1)
              ELSE [nodes |-> ns2, edges |-> es, outcome |-> "returned"]

\* the loop of add_import over the list `names` from index i on
RECURSIVE AddImportFrom(_, _, _, _, _, _, _, _)
AddImportFrom(ns, es, regex, mods, from, names, i, reqs) ==
    IF i > Len(names)
    THEN [nodes |-> ns, edges |-> es, outcome |-> "returned", requested |-> reqs]
    ELSE LET edge == <<from, names[i]>>
             r == _add_edge(ns, es, regex, mods, edge, 1)
         IN  IF r.outcome # "returned"
             THEN [nodes |-> r.nodes, edges |-> r.edges, outcome |-> r.outcome,
                   requested |-> reqs \cup {edge}]
             ELSE AddImportFrom(r.nodes, r.edges, regex, mods, from, names,
                                i + 1, reqs \cup {edge})

\* AbstractImportGraph.add_import, given the list imported_names() returned
add_import(ns, es, regex, mods, self, names) ==
    AddImportFrom(ns, es, regex, mods, from_name(self), names, 1, {})

----------------------------------------------------------------------------
(* Inputs of the graph specification *)

NameDict(n) == Some([k \in {"__name__"} |-> n])

GraphLoaded == {PKG, PKG_A, CALLER, MOD_SYS, MOD_NS}
GraphTables == {[n \in GraphLoaded \ D |-> ModuleObject(n)] :
                   D \in {{}, {PKG_A}, {CALLER}}}
Patterns == {None, Some(".*"), Some("/project/.*"), Some("")}
EdgeNames == {PKG, PKG_A, CALLER, MOD_SYS, MOD_NS}

GraphActions ==
    {ImportAction(EmptyStr, NameDict(PKG), Some(<<MOD_A>>), 1),
     ImportAction(PKG, NameDict(CALLER), Some(<<MOD_A, MOD_B>>), 0),
     ImportAction(PKG, NameDict(PKG_A), Some(<<MOD_A, MOD_SUB>>), 0),
     ImportAction(MOD_SYS, None, None, 0),
     ImportAction(PKG_A, NameDict(PKG), None, 0),
     ImportAction(PKG, Some(<<>>), Some(<<>>), 0)}

NoAction == ImportAction(EmptyStr, None, None, 0)

InitGraph ==
    /\ sys_modules \in GraphTables
    /\ \E regex \in Patterns : filename_regex = CompileOption(regex)
    /\ nodes = {}
    /\ edges = {}
    /\ last_call = NoCall
    /\ requested = {}
    /\ ncalls = 0
    /\ import_action = NoAction
    /\ ret = <<>>
    /\ RunIdle

\* a direct call of _add_edge(edge)
AddEdge ==
    /\ ncalls < MaxCalls
    /\ \E from \in EdgeNames, to \in EdgeNames :
          LET edge == <<from, to>>
              r == _add_edge(nodes, edges, filename_regex, sys_modules, edge, 1)
          IN  /\ nodes' = r.nodes
              /\ edges' = r.edges
              /\ last_call' = [op |-> "_add_edge", edge |-> Some(edge),
                               names |-> None, outcome |-> r.outcome]
              /\ requested' = requested \cup {edge}
    /\ ncalls' = ncalls + 1
    /\ UNCHANGED <<sys_modules, import_action, ret, filename_regex, runVars>>

\* a call of add_import(import_action)
AddImport ==
    /\ ncalls < MaxCalls
    /\ \E self \in GraphActions :
          \E names \in imported_names(self, sys_modules) :
             LET r == add_import(nodes, edges, filename_regex, sys_modules,
                                 self, names)
             IN  /\ import_action' = self
                 /\ nodes' = r.nodes
                 /\ edges' = r.edges
                 /\ last_call' = [op |-> "add_import", edge |-> None,
                                  names |-> Some(names), outcome |-> r.outcome]
                 /\ requested' = requested \cup r.requested
    /\ ncalls' = ncalls + 1
    /\ UNCHANGED <<sys_modules, ret, filename_regex, runVars>>

NextGraph == AddEdge \/ AddImport

Spec == InitGraph /\ [][NextGraph]_vars

----------------------------------------------------------------------------
(* ImportGraphCommand: one run of the driver *)

\* an import executed by a module body: the arguments the interpreter hands
\* to builtins.__import__ (ctx tells which globals are passed: the module's
\* own, None, or a dict without __name__) and the modules the original
\* import loads for it, in order
Stmt(name, ctx, fromlist, level, loads) ==
    [name |-> name, ctx |-> ctx, fromlist |-> fromlist, level |-> level,
     loads |-> loads]

\* the bodies of the modules found on sys.path
ProjectNames == {MOD_A, MOD_B, MOD_C, MOD_U, MOD_N, MOD_M}
Body(m) ==
    CASE m = MOD_A -> <<Stmt(MOD_B, "module", None, 0, <<MOD_B>>)>>
      [] m = MOD_B -> <<>>
      [] m = MOD_C -> <<Stmt(MOD_A, "module", Some(<<MOD_X>>), 0, <<MOD_A>>)>>
      [] m = MOD_U -> <<Stmt(MOD_B, "none", None, 0, <<MOD_B>>)>>
      [] m = MOD_N -> <<Stmt(MOD_SYS, "noname", Some(<<>>), 0, <<MOD_SYS>>),
                        Stmt(MOD_SYS, "noname", None, 0, <<MOD_SYS>>)>>
      [] m = MOD_M -> <<Stmt(MOD_MISSING, "module", None, 0, <<MOD_MISSING>>)>>

\* the modules of the interpreter that are loaded before the run starts;
\* importlib is among them or not, depending on how the program is started
Builtins ==
    [n \in {MOD_SYS, MOD_IO, MOD_IO_PY, FROZEN_EXTERNAL} |-> ModuleObject(n)]
BuiltinsWithImportlib ==
    [n \in DOMAIN Builtins \cup {IMPORTLIB, BOOTSTRAP_EXTERNAL} |->
        ModuleObject(n)]

\* While the import system reads the file of a source module it imports _io
\* itself, through builtins.__import__ and so through the installed hook:
\* once when the bytecode cache of the module is used, twice when the
\* source is compiled. The importing module is the frozen
\* _frozen_importlib_external, which importlib renames when it is imported.
InterpreterImports == {1, 2}
InterpreterImport(mods) ==
    ImportAction(MOD_IO,
                 NameDict(IF IMPORTLIB \in DOMAIN mods THEN BOOTSTRAP_EXTERNAL
                          ELSE FROZEN_EXTERNAL),
                 Some(<<>>), 0)

\* The hook stays installed when an exception leaves run(): while the
\* interpreter prints the traceback it imports io through the hook, with
\* globals that hold __builtins__ only.
TracebackImport ==
    ImportAction(MOD_IO_PY,
                 Some([k \in {"__builtins__"} |-> [kind |-> "nofile", file |-> ""]]),
                 Some(<<>>), 0)

\* sys.modules once the import system has registered module m
Load(mods, m) ==
    [n \in DOMAIN mods \cup {m} |-> IF n = m THEN ModuleObject(m) ELSE mods[n]]

\* a module whose load is in progress: io interpreter imports still to come,
\* then the statements of the body from ip on
Frame(m, k) == [module |-> m, ip |-> 1, io |-> k]

\* sys.modules after an exception has left the bodies on the stack: the
\* import system removes every module whose load failed
Unwind(mods, frames) ==
    [n \in DOMAIN mods \ {frames[i].module : i \in 1..Len(frames)} |-> mods[n]]
Top == stack[Len(stack)]
Pop == SubSeq(stack, 1, Len(stack) - 1)
CurrentStmt == Body(Top.module)[Top.ip]

\* the globals a statement of module m passes to __import__
Globals(st, m) ==
    CASE st.ctx = "module" -> NameDict(m)
      [] st.ctx = "none" -> None
      [] st.ctx = "noname" -> Some(<<>>)

Unloaded(st) == {i \in 1..Len(st.loads) : st.loads[i] \notin DOMAIN sys_modules}
FirstUnloaded(st) ==
    st.loads[CHOOSE i \in Unloaded(st) : \A j \in Unloaded(st) : i <= j]

ArgLists == UNION {[1..k -> ProjectNames \cup {MOD_MISSING}] : k \in 1..MaxModules}

InitRun ==
    /\ sys_modules \in {Builtins, BuiltinsWithImportlib}
    /\ import_action = NoAction
    /\ ret = <<>>
    /\ GraphIdle
    /\ options = NoOptions
    /\ pc = "start"
    /\ pending = <<>>
    /\ stack = <<>>
    /\ out_file \in {"absent", "old"}
    /\ rendered = None

\* ImportGraphCommand.__init__: parse_args (argparse.FileType('w') opens the
\* file named by -o, creating or truncating it), then DotImportGraph(regex)
Construct ==
    /\ pc = "start"
    /\ \E module \in ArgLists, output \in {None, Some("out.dot")},
          regex \in Patterns :
          /\ options' = [module |-> module, output |-> output, regex |-> regex]
          /\ out_file' = IF IsNone(output) THEN out_file ELSE "empty"
          /\ filename_regex' = CompileOption(regex)
    /\ nodes' = {}
    /\ edges' = {}
    /\ pc' = "constructed"
    /\ UNCHANGED <<resolverVars, last_call, requested, ncalls, pending, stack,
                   rendered>>

\* run(), lines 209-211: install the hook, take the module names
InstallHook ==
    /\ pc = "constructed"
    /\ pc' = "loading"
    /\ pending' = options.module
    /\ UNCHANGED <<resolverVars, graphVars, options, stack, out_file, rendered>>

\* run(), line 212: old_import(module_name) for the next top-level module
LoadTopLevel ==
    /\ pc = "loading"
    /\ stack = <<>>
    /\ pending # <<>>
    /\ LET m == Head(pending) IN
       IF m \in DOMAIN sys_modules
       THEN /\ pending' = Tail(pending)
            /\ UNCHANGED <<sys_modules, stack, pc>>
       ELSE IF m \notin ProjectNames
       THEN /\ pc' = "aborted"
            /\ UNCHANGED <<sys_modules, stack, pending>>
       ELSE /\ sys_modules' = Load(sys_modules, m)
            /\ \E k \in InterpreterImports : stack' = <<Frame(m, k)>>
            /\ pending' = Tail(pending)
            /\ pc' = pc
    /\ UNCHANGED <<import_action, ret, graphVars, options, out_file, rendered>>

\* new_import, line 176: old_import registers a module not loaded yet and
\* starts loading it
HookLoad ==
    /\ pc = "loading"
    /\ stack # <<>>
    /\ Top.io = 0
    /\ Top.ip <= Len(Body(Top.module))
    /\ Unloaded(CurrentStmt) # {}
    /\ FirstUnloaded(CurrentStmt) \in ProjectNames
    /\ sys_modules' = Load(sys_modules, FirstUnloaded(CurrentStmt))
    /\ \E k \in InterpreterImports :
          stack' = Append(stack, Frame(FirstUnloaded(CurrentStmt), k))
    /\ UNCHANGED <<import_action, ret, graphVars, options, pc, pending,
                   out_file, rendered>>

\* new_import, line 176: old_import raises ModuleNotFoundError, which nothing
\* catches: it leaves every body being executed
HookFail ==
    /\ pc = "loading"
    /\ stack # <<>>
    /\ Top.io = 0
    /\ Top.ip <= Len(Body(Top.module))
    /\ Unloaded(CurrentStmt) # {}
    /\ FirstUnloaded(CurrentStmt) \notin ProjectNames
    /\ pc' = "aborted"
    /\ sys_modules' = Unwind(sys_modules, stack)
    /\ stack' = <<>>
    /\ last_call' = [op |-> "new_import", edge |-> None, names |-> None,
                     outcome |-> "ModuleNotFoundError"]
    /\ UNCHANGED <<import_action, ret, filename_regex, nodes, edges,
                   requested, ncalls, options, pending, out_file, rendered>>

\* new_import, lines 177-179, for the ImportAction `self`: record the
\* import and return the module, the bodies being executed going on as
\* `resume`, or let the exception of add_import propagate through them
RecordImport(self, resume) ==
    \E names \in imported_names(self, sys_modules) :
       LET r == add_import(nodes, edges, filename_regex, sys_modules, self,
                           names)
       IN  /\ import_action' = self
           /\ nodes' = r.nodes
           /\ edges' = r.edges
           /\ requested' = requested \cup r.requested
           /\ last_call' = [op |-> "new_import", edge |-> None,
                            names |-> Some(names), outcome |-> r.outcome]
           /\ IF r.outcome = "returned"
              THEN /\ stack' = resume
                   /\ sys_modules' = sys_modules
                   /\ pc' = pc
              ELSE /\ stack' = <<>>
                   /\ sys_modules' = Unwind(sys_modules, stack)
                   /\ pc' = "aborted"

\* new_import, lines 176-179, called by the import system for its own
\* import of _io while it loads the innermost module
HookInterpreter ==
    /\ pc = "loading"
    /\ stack # <<>>
    /\ Top.io > 0
    /\ RecordImport(InterpreterImport(sys_modules),
                    [stack EXCEPT ![Len(stack)].io = @ - 1])
    /\ UNCHANGED <<ret, filename_regex, ncalls, options, pending, out_file,
                   rendered>>

\* new_import, lines 176-179, for a statement of a module body once
\* old_import has returned
HookRecord ==
    /\ pc = "loading"
    /\ stack # <<>>
    /\ Top.io = 0
    /\ Top.ip <= Len(Body(Top.module))
    /\ Unloaded(CurrentStmt) = {}
    /\ LET st == CurrentStmt
           self == ImportAction(st.name, Globals(st, Top.module), st.fromlist,
                                st.level)
       IN  RecordImport(self, [stack EXCEPT ![Len(stack)].ip = @ + 1])
    /\ UNCHANGED <<ret, filename_regex, ncalls, options, pending, out_file,
                   rendered>>

\* new_import, lines 176-179, called by the interpreter for its import of
\* io while it reports the exception that ended run()
HookTraceback ==
    /\ pc = "aborted"
    /\ RecordImport(TracebackImport, stack)
    /\ UNCHANGED <<ret, filename_regex, ncalls, options, pending, out_file,
                   rendered>>

\* the body of the innermost module has run to its end
ModuleDone ==
    /\ pc = "loading"
    /\ stack # <<>>
    /\ Top.io = 0
    /\ Top.ip > Len(Body(Top.module))
    /\ stack' = Pop
    /\ UNCHANGED <<resolverVars, graphVars, options, pc, pending, out_file,
                   rendered>>

\* run(), lines 213-216: save to the output file, or print
Render ==
    /\ pc = "loading"
    /\ stack = <<>>
    /\ pending = <<>>
    /\ rendered' = Some([nodes |-> nodes, edges |-> edges])
    /\ out_file' = IF IsNone(options.output) THEN out_file ELSE "written"
    /\ pc' = "done"
    /\ UNCHANGED <<resolverVars, graphVars, options, pending, stack>>

NextRun ==
    \/ Construct
    \/ InstallHook
    \/ LoadTopLevel
    \/ HookLoad
    \/ HookInterpreter
    \/ HookFail
    \/ HookRecord
    \/ HookTraceback
    \/ ModuleDone
    \/ Render

SpecRun == InitRun /\ [][NextRun]_vars

----------------------------------------------------------------------------
(* Properties *)

\* what the resolver is documented to compute, stated independently of
\* _last_module_in_path: the longest prefix of a path, from its full length
\* down to length 1, that names a loaded module
LoadedPrefixLengths(mods, path) ==
    {k \in 1..Len(path) : Join(SubSeq(path, 1, k)) \in DOMAIN mods}
HasLoadedPrefix(mods, path) == LoadedPrefixLengths(mods, path) # {}
LongestLoadedPrefix(mods, path) ==
    LET K == LoadedPrefixLengths(mods, path)
    IN  SubSeq(path, 1, CHOOSE k \in K : \A j \in K : j <= k)

Candidates == Range(_build_imported_paths(import_action))
Requester == from_name(import_action)
IsFromImport == ~IsNone(import_action.fromlist)
NoRequesterName ==
    \/ IsNone(import_action.the_globals)
    \/ "__name__" \notin DOMAIN Value(import_action.the_globals)

\* the file path of a module as text: empty when the module is unknown or
\* has no file
FilePathText(n) ==
    IF n \in DOMAIN sys_modules /\ sys_modules[n].kind = "file"
    THEN sys_modules[n].file ELSE ""
BothMatch(e) ==
    /\ FilePathText(e[1]) \in Value(filename_regex)
    /\ FilePathText(e[2]) \in Value(filename_regex)
\* the decision of the graph's own filter on an edge
FilterKeeps(e) ==
    _should_keep_edge(filename_regex, sys_modules, e[1], e[2]) = "True"

\* C1: a run on module a (a does `import b`, b imports nothing) completes and
\* hands the renderer the graph with nodes {a, b} and edges {(a, b)}.
C1_EndToEndTwoModules ==
    (/\ options.module = <<MOD_A>>
     /\ IsNone(options.regex)
     /\ pc \in {"done", "aborted"})
    => /\ pc = "done"
       /\ rendered = Some([nodes |-> {MOD_A, MOD_B},
                           edges |-> {<<MOD_A, MOD_B>>}])

\* C2: recording an edge the filter keeps returns with the edge in edges and
\* both endpoints in nodes; recording the same edge again changes nothing, so
\* two calls on one edge leave exactly that edge and its endpoints.
C2_EdgeInsertionIdempotent ==
    /\ (last_call.op = "_add_edge" /\ FilterKeeps(Value(last_call.edge)))
       => LET e == Value(last_call.edge) IN
          /\ last_call.outcome = "returned"
          /\ e \in edges
          /\ {e[1], e[2]} \subseteq nodes
    /\ \A e \in requested :
          (ncalls = 2 /\ requested = {e} /\ FilterKeeps(e))
          => (edges = {e} /\ nodes = {e[1], e[2]})

\* C3: every from_list entry resolves to the longest prefix of its candidate
\* path that names a loaded module, the search starting at the full candidate
\* path; `from . import a` (level 1) in pkg.sub with pkg and pkg.a loaded
\* yields exactly {pkg.a}.
C3_LongestLoadedPrefix ==
    (Called("imported_names") /\ IsFromImport)
    => LET got == Range(ret["imported_names"]) IN
       /\ \A p \in Candidates :
             HasLoadedPrefix(sys_modules, p)
             => Join(LongestLoadedPrefix(sys_modules, p)) \in got
       /\ (/\ Requester = PKG_SUB
           /\ import_action.level = 1
           /\ import_action.name = EmptyStr
           /\ import_action.fromlist = Some(<<MOD_A>>)
           /\ {PKG, PKG_A} \subseteq DOMAIN sys_modules)
          => got = {PKG_A}

\* the case of C4: `from pkg import a, b` at level 0 with pkg loaded and
\* neither pkg.a nor pkg.b loaded
C4_Case ==
    /\ import_action.name = PKG
    /\ import_action.level = 0
    /\ import_action.fromlist = Some(<<MOD_A, MOD_B>>)
    /\ PKG \in DOMAIN sys_modules
    /\ PKG_A \notin DOMAIN sys_modules
    /\ PKG_B \notin DOMAIN sys_modules

\* C4: the list imported_names returns never holds the same module path
\* twice, and in the case above it is the single target pkg.
C4_FromListDeduplicated ==
    Called("imported_names")
    => LET lst == ret["imported_names"] IN
       /\ \A i, j \in 1..Len(lst) : lst[i] = lst[j] => i = j
       /\ C4_Case => lst = <<PKG>>

C4_Witness ==
    /\ Called("imported_names")
    /\ C4_Case
    /\ Requester = CALLER

\* C5: a from_list entry none of whose candidate-path prefixes names a loaded
\* module yields no target, and add_import records no edge and no node for
\* it: nothing to the empty-string name, nothing to <unknown>.
C5_UnresolvableDropped ==
    (last_call.op = "add_import" /\ IsFromImport)
    => LET names == Value(last_call.names) IN
       /\ (\A p \in Candidates : ~HasLoadedPrefix(sys_modules, p))
          => names = <<>>
       /\ EmptyStr \notin Range(names)
       /\ EmptyStr \notin nodes
       /\ \A e \in requested \cup edges : e[2] \notin {EmptyStr, UNKNOWN_MODULE_NAME}

\* C6: with a regex, an edge is retained only if the files of both endpoints
\* match it in full (unknown or no file counting as the empty string), and a
\* module that takes part only in rejected edges is not a node: every node is
\* an endpoint of a requested edge both of whose endpoints match. With no
\* regex every edge handed to the graph is kept: it is in edges.
C6_FilterRetention ==
    /\ ~IsNone(filename_regex)
       => /\ \A e \in edges : BothMatch(e)
          /\ \A n \in nodes :
                \E e \in requested : n \in {e[1], e[2]} /\ BothMatch(e)
    /\ IsNone(filename_regex)
       => requested \subseteq edges

\* C7: a run that aborts has not created or written the output file; the
\* output file is touched only once every top-level load has completed.
C7_NoArtifactOnFailure ==
    /\ pc = "aborted" => out_file \in {"absent", "old"}
    /\ out_file \in {"empty", "written"} => pc = "done"

\* C8: for a plain import (fromlist None) the resolver returns exactly the
\* requested name, whatever the level, the requester and the loaded modules.
C8_PlainImportVerbatim ==
    (Called("imported_names") /\ ~IsFromImport)
    => ret["imported_names"] = <<import_action.name>>

C8_Witness ==
    /\ Called("imported_names")
    /\ ~IsFromImport
    /\ import_action.level = 2
    /\ import_action.name = PKG_A
    /\ Requester = PKG_SUB
    /\ PKG_A \notin DOMAIN sys_modules

\* C9: a hook call whose requester context is None or lacks __name__ does
\* not raise, and records every resolved target t the filter keeps as the
\* edge (<unknown>, t), with <unknown> among the nodes.
C9_UnknownRequester ==
    (/\ last_call.op = "new_import"
     /\ last_call.outcome # "ModuleNotFoundError"
     /\ NoRequesterName)
    => /\ last_call.outcome = "returned"
       /\ \A t \in Range(Value(last_call.names)) :
             FilterKeeps(<<UNKNOWN_MODULE_NAME, t>>)
             => /\ <<UNKNOWN_MODULE_NAME, t>> \in edges
                /\ UNKNOWN_MODULE_NAME \in nodes

\* the path C10 describes for entry i, given the root
C10_Path(root, i) ==
    Append(IF import_action.name # EmptyStr
           THEN root \o Split(import_action.name) ELSE root,
           Value(import_action.fromlist)[i])

\* C10 as stated: for every level >= 0, level 0 included, the root is the
\* first (length - level) segments of the requester's name.
C10_RootKeepsRequesterAtLevelZero ==
    Called("_build_imported_paths")
    => LET segs == Split(Requester)
           paths == ret["_build_imported_paths"]
       IN  /\ Len(paths) = Len(Value(import_action.fromlist))
           /\ \A i \in 1..Len(paths) :
                 paths[i] = C10_Path(SubSeq(segs, 1, Len(segs) - import_action.level), i)

\* C10 amended: for level >= 1 the root is the first (length - level)
\* segments of the requester's name (none when level >= length); for level 0
\* the root is empty, so the base path is the requested name alone.
C10_RootEmptyAtLevelZero ==
    Called("_build_imported_paths")
    => LET segs == Split(Requester)
           paths == ret["_build_imported_paths"]
           root == IF import_action.level = 0 THEN <<>>
                   ELSE SubSeq(segs, 1, Len(segs) - import_action.level)
       IN  /\ Len(paths) = Len(Value(import_action.fromlist))
           /\ \A i \in 1..Len(paths) : paths[i] = C10_Path(root, i)

C10_Witness ==
    /\ Called("_build_imported_paths")
    /\ import_action.level = 0
    /\ Requester = PKG_SUB
    /\ import_action.name = PKG
    /\ ret["_build_imported_paths"] = << <<PKG, MOD_A>>, <<PKG, MOD_B>> >>

=============================================================================
